---- MODULE Spec2Model ----
(***************************************************************************)
(* File-transfer core of mobius-hotline-client: the Task registry, the UI   *)
(* message loop (bubbletea's unbuffered message channel and the handlers    *)
(* of internal/handlers_msg.go) and the transfer workers of the transfer    *)
(* file (performFileTransfer, performFileUpload, copyWithProgress...).      *)
(*                                                                         *)
(* Goroutines of the model:                                                 *)
(*   - one command goroutine per initiated transfer (the tea.Cmd returned   *)
(*     by InitiateDownload / initiateFileUpload),                           *)
(*   - the control-channel reader, which turns a server reply into a        *)
(*     downloadReplyMsg / uploadReplyMsg with program.Send,                 *)
(*   - the UI loop, which receives one message at a time and runs its       *)
(*     handler,                                                             *)
(*   - one transfer worker per Task, started by the reply handler.          *)
(* program.Send blocks until the UI loop has received the message; the      *)
(* sender then goes on while the handler runs.                              *)
(***************************************************************************)
EXTENDS Integers, Sequences, FiniteSets, TLC

\* ---------------------------------------------------------------- bounds
MaxData == 2
MaxXfer == 2
MaxRes == 46
MaxTasks == 3
MaxProbe == 2

\* ------------------------------------------------------ program constants
BufSize == 32768
FFOHeaderLen == 24
ForkHeaderLen == 16
AppleDoubleSkip == 82

\* The worker model follows one transfer: a worker touches no Task but its own
\* and a handler only the Task its message names.
TaskIds == {1}
DataSizes == 0..MaxData
TransferSizes == 0..MaxXfer
\* lengths createInfoFork can return: empty on a serialisation error, else
\* the 16-byte fork header plus the library's encoding of the info fork
InfoForkLens == {0, 91}
\* the 4-byte type tag of the fork that follows the info fork, and of the one
\* after it: the tag a Hotline server sends there, or one the client does not know
SecondForkTypes == {"DATA", "XXXX"}
ThirdForkTypes == {"MACR", "XXXX"}
\* the sidecar file "._name" as os.Stat / os.Open see it
Sidecars ==
  {[present |-> FALSE, size |-> 0, openable |-> FALSE]} \cup
  {[present |-> TRUE, size |-> s, openable |-> o] :
      s \in {AppleDoubleSkip - 1, AppleDoubleSkip, AppleDoubleSkip + 1},
      o \in BOOLEAN}

TaskPending == "Pending"
TaskActive == "Active"
TaskCompleted == "Completed"
TaskFailed == "Failed"
NoError == "nil"

VARIABLES
  task,             \* the Task objects (heap): pointer -> fields
  tmTasks,          \* TaskManager.tasks: task id -> pointer
  tmOrder,          \* TaskManager.order
  pendingDownloads, \* transaction id -> task id
  pendingUploads,   \* transaction id -> task id
  cpc,              \* command goroutine of each transfer: its position
  kind,             \* "download" / "upload" of each initiated transfer
  ctl,              \* control channel, per transaction
  ctlMsg,           \* the reply message the control reader is sending
  uiPc,             \* UI loop: "idle" or the handler step it is at
  uiMsg,            \* the message the UI loop is handling
  wpc,              \* transfer worker of each Task: its position
  w,                \* transfer worker of each Task: its locals
  sent,             \* messages each worker has handed to the UI loop
  cx                \* pure-function harness: inputs and results

vars == <<task, tmTasks, tmOrder, pendingDownloads, pendingUploads, cpc, kind,
          ctl, ctlMsg, uiPc, uiMsg, wpc, w, sent, cx>>

\* ------------------------------------------------------------- integers

\* TLC's integers are 32-bit: a size that can reach 2^32 (int64 and uint32 values
\* of the code) is held as <<hi, lo>>, the number hi * 2^16 + lo with lo < 2^16
Limb == 256 * 256

Wide(n) == << n \div Limb, n % Limb >>

WideAdd(a, b) == << a[1] + b[1] + (a[2] + b[2]) \div Limb, (a[2] + b[2]) % Limb >>

\* uint32(x) of Go: x modulo 2^32
U32(a) == << a[1] % Limb, a[2] >>

Min(a, b) == IF a < b THEN a ELSE b

\* the bytes of a uint32 in little-endian order
PutUint32LE(v) == << v[2] % 256, v[2] \div 256, v[1] % 256, v[1] \div 256 >>

\* binary.BigEndian.PutUint32 of a uint32
PutUint32BE(v) == << v[1] \div 256, v[1] % 256, v[2] \div 256, v[2] % 256 >>

\* binary.BigEndian.Uint32
Uint32BE(b) == << b[1] * 256 + b[2], b[3] * 256 + b[4] >>

Zeros(n) == [i \in 1..n |-> 0]

\* ------------------------------------------------------------ Task heap

\* &Task{ID: uuid, Status: TaskPending, TotalBytes: total}
NewTask(id, total) ==
  [ID |-> id, Status |-> TaskPending, Error |-> NoError, TotalBytes |-> total,
   TransferredBytes |-> 0, LastBytes |-> 0, EndSet |-> FALSE]

\* TaskManager.Get: the pointer stored under id, nil (0) for an id not in the map
Get(id) == IF id \in DOMAIN tmTasks THEN tmTasks[id] ELSE 0

\* a TaskManager.Add that drops the entries the map had
AddEvicting(p, id) ==
  /\ tmTasks' = (id :> p)
  /\ tmOrder' = Append(tmOrder, id)

\* TaskManager.Add, under the write lock: tm.tasks[task.ID] = task, then
\* tm.order = append(tm.order, task.ID)
Add(p, id) ==
  /\ tmTasks' = [x \in DOMAIN tmTasks \cup {id} |-> IF x = id THEN p ELSE tmTasks[x]]
  /\ tmOrder' = Append(tmOrder, id)

NoMsg == [type |-> "none", id |-> 0, status |-> "", err |-> NoError, bytes |-> 0,
          size |-> 0]

NoLocals ==
  [written |-> 0, size |-> 0, forkCount |-> 0, err |-> NoError, tick |-> FALSE,
   decl |-> Wide(0), conn |-> 0, fileSize |-> 0, infoLen |-> 0,
   sc |-> [present |-> FALSE, size |-> 0, openable |-> FALSE],
   hasRes |-> FALSE, xfer |-> Wide(0), rerr |-> "nil", mstatus |-> "", merr |-> NoError,
   resFail |-> "", sidecar |-> FALSE, stage |-> "",
   tag2 |-> "", tag3 |-> "", ticks |-> 0, starts |-> 0, dir |-> FALSE,
   opened |-> {}, deferred |-> << >>, closed |-> << >>, read |-> 0]

\* the codec harness at rest
NoCx ==
  [pc |-> "off", fn |-> "", refNum |-> <<0, 0, 0, 0>>, size |-> Wide(0),
   infoLen |-> 0, sc |-> [present |-> FALSE, size |-> 0, openable |-> FALSE],
   n |-> 0, k |-> 0, out |-> << >>, file |-> << >>, hasRes |-> FALSE,
   resDecl |-> Wide(0), resOut |-> << >>,
   added |-> {}, ended |-> << >>, op |-> "", arg |-> 0, res |-> << >>,
   addedAt |-> {}, endedAt |-> << >>,
   name |-> << >>, fs |-> {}, errs |-> {}, i |-> 0, path |-> << >>,
   rpc |-> << >>, ri |-> << >>, rpath |-> << >>,
   mpc |-> << >>, mkind |-> << >>, mraced |-> << >>, mfound |-> << >>,
   upc |-> "idle", umsg |-> 0, uraced |-> FALSE, crashed |-> FALSE,
   req |-> << >>, dhdr |-> << >>, rhdr |-> << >>]

Init ==
  /\ task = << >>
  /\ tmTasks = << >>
  /\ tmOrder = << >>
  /\ pendingDownloads = << >>
  /\ pendingUploads = << >>
  /\ cpc = [t \in TaskIds |-> "idle"]
  /\ kind = [t \in TaskIds |-> "none"]
  /\ ctl = [t \in TaskIds |-> "none"]
  /\ ctlMsg = [t \in TaskIds |-> NoMsg]
  /\ uiPc = "idle"
  /\ uiMsg = NoMsg
  /\ wpc = [t \in TaskIds |-> "idle"]
  /\ w = [t \in TaskIds |-> NoLocals]
  /\ sent = [t \in TaskIds |-> << >>]
  /\ cx = NoCx

\* ------------------------------------------------- command goroutines

\* transfers are initiated one after the other
Started(t) == IF t = 1 THEN TRUE ELSE cpc[t - 1] # "idle"

\* the loop of GetCompleted from index i down, completed being the result so far
RECURSIVE GetCompletedFrom(_, _, _)
GetCompletedFrom(i, completed, limit) ==
  IF i >= 1 /\ Len(completed) < limit
    THEN LET t == tmTasks[tmOrder[i]] IN
         GetCompletedFrom(i - 1,
                          IF task[t].Status \in {TaskCompleted, TaskFailed}
                            THEN Append(completed, t) ELSE completed,
                          limit)
    ELSE completed

\* TaskManager.GetCompleted, under the read lock
GetCompleted(limit) == GetCompletedFrom(Len(tmOrder), << >>, limit)

\* TaskManager.GetActive, under the read lock: the tasks of order, in order,
\* whose Status is Active or Pending
GetActive ==
  LET ids == SelectSeq(tmOrder,
                LAMBDA id : task[tmTasks[id]].Status \in {TaskActive, TaskPending}) IN
  [i \in 1..Len(ids) |-> tmTasks[ids[i]]]

\* the Task of transfer t is allocated and added under its own id
Register(t, total) ==
  /\ task' = task @@ (t :> NewTask(t, total))
  /\ Add(t, t)

\* FilesScreen.InitiateDownload, up to TaskManager.Add
StartDownload(t) ==
  /\ cpc[t] = "idle" /\ Started(t)
  /\ Register(t, 0)
  /\ kind' = [kind EXCEPT ![t] = "download"]
  /\ cpc' = [cpc EXCEPT ![t] = "map"]
  /\ UNCHANGED <<pendingDownloads, pendingUploads, ctl, ctlMsg, uiPc, uiMsg, wpc, w,
                 sent, cx>>

\* initiateFileUpload, up to TaskManager.Add: TotalBytes is the size os.Stat gave
StartUpload(t) ==
  /\ cpc[t] = "idle" /\ Started(t)
  /\ \E size \in DataSizes : Register(t, size)
  /\ kind' = [kind EXCEPT ![t] = "upload"]
  /\ cpc' = [cpc EXCEPT ![t] = "map"]
  /\ UNCHANGED <<pendingDownloads, pendingUploads, ctl, ctlMsg, uiPc, uiMsg, wpc, w,
                 sent, cx>>

\* initiateFileUpload: os.Stat fails or names a directory; an errorMsg, no Task
StartUploadRejected(t) ==
  /\ cpc[t] = "idle" /\ Started(t)
  /\ kind' = [kind EXCEPT ![t] = "upload"]
  /\ cpc' = [cpc EXCEPT ![t] = "done"]
  /\ UNCHANGED <<task, tmTasks, tmOrder, pendingDownloads, pendingUploads, ctl,
                 ctlMsg, uiPc, uiMsg, wpc, w, sent, cx>>

\* the transaction id is fresh: the transfer's own number
CmdMap(t) ==
  /\ cpc[t] = "map"
  /\ IF kind[t] = "download"
       THEN /\ pendingDownloads' = pendingDownloads @@ (t :> t)
            /\ UNCHANGED pendingUploads
       ELSE /\ pendingUploads' = pendingUploads @@ (t :> t)
            /\ UNCHANGED pendingDownloads
  /\ cpc' = [cpc EXCEPT ![t] = "send"]
  /\ UNCHANGED <<task, tmTasks, tmOrder, kind, ctl, ctlMsg, uiPc, uiMsg, wpc, w,
                 sent, cx>>

\* hlClient.Send succeeds: the upload command then returns taskStatusMsg{Pending}
CmdSendOk(t) ==
  /\ cpc[t] = "send"
  /\ ctl' = [ctl EXCEPT ![t] = "sent"]
  /\ cpc' = [cpc EXCEPT ![t] = IF kind[t] = "upload" THEN "ret" ELSE "done"]
  /\ UNCHANGED <<task, tmTasks, tmOrder, pendingDownloads, pendingUploads, kind,
                 ctlMsg, uiPc, uiMsg, wpc, w, sent, cx>>

\* hlClient.Send fails: logged (download) or an errorMsg (upload)
CmdSendFails(t) ==
  /\ cpc[t] = "send"
  /\ cpc' = [cpc EXCEPT ![t] = "done"]
  /\ UNCHANGED <<task, tmTasks, tmOrder, pendingDownloads, pendingUploads, kind, ctl,
                 ctlMsg, uiPc, uiMsg, wpc, w, sent, cx>>

\* ----------------------------------------------------- control channel

ReaderFree == \A u \in TaskIds : ctl[u] \notin {"reply", "reply2"}

\* HandleDownloadFile: the reply carries a transfer size; program.Send blocks
ServerReplyDownload(t) ==
  /\ ctl[t] = "sent" /\ kind[t] = "download" /\ ReaderFree
  /\ \E size \in TransferSizes :
       ctlMsg' = [ctlMsg EXCEPT ![t] = [NoMsg EXCEPT !.type = "downloadReply",
                                                    !.id = t, !.size = size]]
  /\ ctl' = [ctl EXCEPT ![t] = "reply"]
  /\ UNCHANGED <<task, tmTasks, tmOrder, pendingDownloads, pendingUploads, cpc, kind,
                 uiPc, uiMsg, wpc, w, sent, cx>>

\* HandleUploadFile
ServerReplyUpload(t) ==
  /\ ctl[t] = "sent" /\ kind[t] = "upload" /\ ReaderFree
  /\ ctlMsg' = [ctlMsg EXCEPT ![t] = [NoMsg EXCEPT !.type = "uploadReply", !.id = t]]
  /\ ctl' = [ctl EXCEPT ![t] = "reply"]
  /\ UNCHANGED <<task, tmTasks, tmOrder, pendingDownloads, pendingUploads, cpc, kind,
                 uiPc, uiMsg, wpc, w, sent, cx>>

\* the server sends a second reply with the transaction id of a handled one
ServerReplyAgain(t) ==
  /\ ctl[t] = "handled" /\ ReaderFree
  /\ \E size \in TransferSizes :
       ctlMsg' = [ctlMsg EXCEPT ![t] =
                    [NoMsg EXCEPT !.type = IF kind[t] = "download" THEN "downloadReply"
                                           ELSE "uploadReply",
                                  !.id = t, !.size = IF kind[t] = "download" THEN size ELSE 0]]
  /\ ctl' = [ctl EXCEPT ![t] = "reply2"]
  /\ UNCHANGED <<task, tmTasks, tmOrder, pendingDownloads, pendingUploads, cpc, kind,
                 uiPc, uiMsg, wpc, w, sent, cx>>

\* checkTransactionError: an error reply yields an errorMsg and nothing else
ServerReplyError(t) ==
  /\ ctl[t] = "sent" /\ ReaderFree
  /\ ctl' = [ctl EXCEPT ![t] = "error"]
  /\ UNCHANGED <<task, tmTasks, tmOrder, pendingDownloads, pendingUploads, cpc, kind,
                 ctlMsg, uiPc, uiMsg, wpc, w, sent, cx>>

\* ---------------------------------------------------------- UI loop

HandlerOf(type) ==
  CASE type = "status" -> "status1"
    [] type = "progress" -> "progress"
    [] type = "downloadReply" -> "dlreply"
    [] type = "uploadReply" -> "ulreply"

\* a worker that sends one more progress message after its status message
AfterSendResume(pc) ==
  CASE pc = "copy_send" -> "copy_chk"
    [] pc = "copy_final" -> "copy_ret"
    [] pc = "defer_send" -> "copy_final"

\* where a worker blocked in program.Send goes on once the message is taken
AfterSend(pc) ==
  CASE pc = "copy_send" -> "copy_chk"
    [] pc = "copy_final" -> "copy_ret"
    [] pc = "defer_send" -> "done"

\* a progress message that carries the bytes still to copy
WorkerMsgRemaining(t) ==
  IF wpc[t] = "defer_send"
    THEN [NoMsg EXCEPT !.type = "status", !.id = t, !.status = w[t].mstatus,
                       !.err = w[t].merr]
    ELSE [NoMsg EXCEPT !.type = "progress", !.id = t,
                       !.bytes = w[t].size - w[t].written]

\* the message a worker blocked in program.Send hands over
WorkerMsg(t) ==
  IF wpc[t] = "defer_send"
    THEN [NoMsg EXCEPT !.type = "status", !.id = t, !.status = w[t].mstatus,
                       !.err = w[t].merr]
    ELSE [NoMsg EXCEPT !.type = "progress", !.id = t, !.bytes = w[t].written]

\* the event loop takes the Pending status message of an upload command
UIReceiveCmd(t) ==
  /\ uiPc = "idle" /\ cpc[t] = "ret"
  /\ uiMsg' = [NoMsg EXCEPT !.type = "status", !.id = t, !.status = TaskPending]
  /\ uiPc' = "status1"
  /\ cpc' = [cpc EXCEPT ![t] = "done"]
  /\ UNCHANGED <<task, tmTasks, tmOrder, pendingDownloads, pendingUploads, kind, ctl,
                 ctlMsg, wpc, w, sent, cx>>

\* the event loop takes a reply message of the control reader
UIReceiveReply(t) ==
  /\ uiPc = "idle" /\ ctl[t] \in {"reply", "reply2"}
  /\ uiMsg' = ctlMsg[t]
  /\ uiPc' = HandlerOf(ctlMsg[t].type)
  /\ ctl' = [ctl EXCEPT ![t] = IF ctl[t] = "reply" THEN "handled" ELSE "handled2"]
  /\ ctlMsg' = [ctlMsg EXCEPT ![t] = NoMsg]
  /\ UNCHANGED <<task, tmTasks, tmOrder, pendingDownloads, pendingUploads, cpc, kind,
                 wpc, w, sent, cx>>

\* the event loop takes a progress or status message of a worker
UIReceiveWorker(t) ==
  /\ uiPc = "idle" /\ wpc[t] \in {"copy_send", "copy_final", "defer_send"}
  /\ uiMsg' = WorkerMsg(t)
  /\ uiPc' = HandlerOf(WorkerMsg(t).type)
  /\ wpc' = [wpc EXCEPT ![t] = AfterSend(wpc[t])]
  /\ sent' = [sent EXCEPT ![t] = Append(@, WorkerMsg(t))]
  /\ UNCHANGED <<task, tmTasks, tmOrder, pendingDownloads, pendingUploads, cpc, kind,
                 ctl, ctlMsg, w, cx>>

UIDone == uiPc' = "idle" /\ uiMsg' = NoMsg

\* handleTaskStatusMsg: task.Status = msg.status
UIStatusSetStatus ==
  /\ uiPc = "status1"
  /\ IF Get(uiMsg.id) = 0
       THEN UIDone /\ UNCHANGED task
       ELSE /\ task' = [task EXCEPT ![uiMsg.id].Status = uiMsg.status]
            /\ uiPc' = "status2" /\ UNCHANGED uiMsg
  /\ UNCHANGED <<tmTasks, tmOrder, pendingDownloads, pendingUploads, cpc, kind, ctl,
                 ctlMsg, wpc, w, sent, cx>>

\* handleTaskStatusMsg: task.Error = msg.err, and EndTime for a terminal status
UIStatusSetError ==
  /\ uiPc = "status2"
  /\ task' = [task EXCEPT ![uiMsg.id].Error = uiMsg.err,
                          ![uiMsg.id].EndSet =
                             @ \/ uiMsg.status \in {TaskCompleted, TaskFailed}]
  /\ UIDone
  /\ UNCHANGED <<tmTasks, tmOrder, pendingDownloads, pendingUploads, cpc, kind, ctl,
                 ctlMsg, wpc, w, sent, cx>>

\* handleTaskProgressMsg
UIProgress ==
  /\ uiPc = "progress"
  /\ IF Get(uiMsg.id) = 0
       THEN UNCHANGED task
       ELSE task' = [task EXCEPT ![uiMsg.id].TransferredBytes = uiMsg.bytes,
                                 ![uiMsg.id].LastBytes = uiMsg.bytes]
  /\ UIDone
  /\ UNCHANGED <<tmTasks, tmOrder, pendingDownloads, pendingUploads, cpc, kind, ctl,
                 ctlMsg, wpc, w, sent, cx>>

\* a lookup that gives the first task's id for a missing key
LookupFirstTask(m, k) == IF k \in DOMAIN m THEN m[k] ELSE 1

\* map lookup of Go: the zero value (no task id) for a missing key
Lookup(m, k) == IF k \in DOMAIN m THEN m[k] ELSE 0

\* a delete that leaves the entry in the map
DeleteNothing(m, k) == m

\* delete(m, k)
Delete(m, k) == [x \in DOMAIN m \ {k} |-> m[x]]

\* go m.performFileTransfer(task, refNum, transferSize)
SpawnWorker(t, first, size) ==
  /\ wpc' = [wpc EXCEPT ![t] = first]
  /\ w' = [w EXCEPT ![t] = [NoLocals EXCEPT !.xfer = Wide(size),
                                          !.starts = w[t].starts + 1]]

\* handleDownloadReplyMsg
UIDownloadReply ==
  /\ uiPc = "dlreply"
  /\ LET id == Get(Lookup(pendingDownloads, uiMsg.id)) IN
       /\ pendingDownloads' = Delete(pendingDownloads, uiMsg.id)
       /\ IF id = 0
            THEN UNCHANGED <<task, wpc, w>>
            ELSE /\ task' = [task EXCEPT ![id].TotalBytes = uiMsg.size,
                                         ![id].Status = TaskActive]
                 /\ SpawnWorker(id, "d_dial", uiMsg.size)
  /\ UIDone
  /\ UNCHANGED <<tmTasks, tmOrder, pendingUploads, cpc, kind, ctl, ctlMsg, sent, cx>>

\* handleUploadReplyMsg
UIUploadReply ==
  /\ uiPc = "ulreply"
  /\ LET id == Get(Lookup(pendingUploads, uiMsg.id)) IN
       IF uiMsg.id \notin DOMAIN pendingUploads
         THEN UNCHANGED <<pendingUploads, task, wpc, w>>
         ELSE /\ pendingUploads' = Delete(pendingUploads, uiMsg.id)
              /\ IF id = 0
                   THEN UNCHANGED <<task, wpc, w>>
                   ELSE /\ task' = [task EXCEPT ![id].Status = TaskActive]
                        /\ SpawnWorker(id, "u_open", 0)
  /\ UIDone
  /\ UNCHANGED <<tmTasks, tmOrder, pendingDownloads, cpc, kind, ctl, ctlMsg, sent, cx>>

\* --------------------------------------------------------- wire formats

\* copy(buf[off:off+len(src)], src) of Go, offsets from 0
CopyInto(buf, off, src) ==
  [i \in 1..Len(buf) |->
     IF i > off /\ i <= off + Len(src) THEN src[i - off] ELSE buf[i]]

\* "HTXF"
HTXF == <<72, 84, 88, 70>>

\* the 16-byte handshake both workers build: make([]byte, 16), then the copies
Handshake(refNum, size) ==
  CopyInto(CopyInto(CopyInto(Zeros(16), 0, HTXF), 4, refNum), 8, PutUint32BE(size))

\* the size field a reader of the handshake finds at [8:12]
HandshakeSize(hs) == Uint32BE(SubSeq(hs, 9, 12))

\* the reference number of the reply to transfer t
RefNumOf(t) == <<0, 0, 0, t>>

\* the writes of writeAppleDoubleHeader, in order
AppleDoubleWrites(resourceForkSize) ==
  << <<0, 5, 22, 7>>,            \* magic 0x00051607
     <<0, 2, 0, 0>>,             \* version 0x00020000
     Zeros(16),                  \* filler
     <<0, 1>>,                   \* number of entries
     <<0, 0, 0, 2>>,             \* entry id: resource fork
     <<0, 0, 0, 82>>,            \* offset 0x52
     PutUint32BE(resourceForkSize) >>

RECURSIVE Concat(_)
Concat(ss) == IF ss = << >> THEN << >> ELSE Head(ss) \o Concat(Tail(ss))

\* what writeAppleDoubleHeader has written when its first k writes succeeded
AppleDoubleHeader(resourceForkSize, k) ==
  Concat(SubSeq(AppleDoubleWrites(resourceForkSize), 1, k))

AppleDoubleWriteCount == Len(AppleDoubleWrites(<<0, 0>>))

\* ------------------------------------------------- transfer workers

WorkerFrame == UNCHANGED <<tmTasks, tmOrder, pendingDownloads, pendingUploads, cpc,
                           kind, ctl, ctlMsg, uiPc, uiMsg, sent, cx>>

Goto(t, pc) == wpc' = [wpc EXCEPT ![t] = pc]

\* task.Status = TaskFailed; the error is attached by the next statement;
\* stage keeps the step that failed
Fail(t, label) ==
  /\ task' = [task EXCEPT ![t].Status = TaskFailed]
  /\ w' = [w EXCEPT ![t].err = label, ![t].stage = wpc[t]]
  /\ Goto(t, "set_err")

\* an open whose Close is not deferred
OpenedUndeferred(l, r) == [l EXCEPT !.opened = @ \cup {r}]

\* a resource was opened and its Close deferred
Opened(l, r) == [l EXCEPT !.opened = @ \cup {r}, !.deferred = Append(@, r)]

\* a call that opens resource r, or fails the transfer
OpenStep(t, from, to, label, r) ==
  /\ wpc[t] = from
  /\ \/ Goto(t, to) /\ w' = [w EXCEPT ![t] = Opened(@, r)] /\ UNCHANGED task
     \/ Fail(t, label)
  /\ WorkerFrame

\* a blocking call that either succeeds or fails the transfer
IOStep(t, from, to, label) ==
  /\ wpc[t] = from
  /\ \/ Goto(t, to) /\ UNCHANGED <<task, w>>
     \/ Fail(t, label)
  /\ WorkerFrame

\* task.Error = fmt.Errorf(...); return
SetError(t) ==
  /\ wpc[t] = "set_err"
  /\ task' = [task EXCEPT ![t].Error = w[t].err]
  /\ Goto(t, "defer")
  /\ UNCHANGED w
  /\ WorkerFrame

Reverse(q) == [i \in 1..Len(q) |-> q[Len(q) + 1 - i]]

\* the deferred Close calls, last registered first; they run before the
\* deferred function that was registered first
DeferClose(t) ==
  /\ wpc[t] = "defer"
  /\ w' = [w EXCEPT ![t].closed = @ \o Reverse(w[t].deferred), ![t].deferred = << >>]
  /\ Goto(t, "defer_compl")
  /\ UNCHANGED task
  /\ WorkerFrame

\* a deferred function that completes the task whatever its status
DeferAlwaysComplete(t) ==
  /\ wpc[t] = "defer_compl"
  /\ task' = [task EXCEPT ![t].Status = TaskCompleted, ![t].EndSet = TRUE]
  /\ Goto(t, "defer_msg")
  /\ UNCHANGED w
  /\ WorkerFrame

\* the deferred function: an Active task becomes Completed
DeferComplete(t) ==
  /\ wpc[t] = "defer_compl"
  /\ IF task[t].Status = TaskActive
       THEN task' = [task EXCEPT ![t].Status = TaskCompleted, ![t].EndSet = TRUE]
       ELSE UNCHANGED task
  /\ Goto(t, "defer_msg")
  /\ UNCHANGED w
  /\ WorkerFrame

\* the deferred function: taskStatusMsg{task.ID, task.Status, task.Error}
DeferStatusMsg(t) ==
  /\ wpc[t] = "defer_msg"
  /\ w' = [w EXCEPT ![t].mstatus = task[t].Status, ![t].merr = task[t].Error]
  /\ Goto(t, "defer_send")
  /\ UNCHANGED task
  /\ WorkerFrame

\* a dial that goes on to the handshake although the connection failed
DDialUnchecked(t) ==
  /\ wpc[t] = "d_dial"
  /\ \/ Goto(t, "d_hs") /\ w' = [w EXCEPT ![t] = Opened(@, "conn")] /\ UNCHANGED task
     \/ Goto(t, "d_resolve") /\ UNCHANGED <<task, w>>
  /\ WorkerFrame

DDial(t) == OpenStep(t, "d_dial", "d_hs", "connection failed", "conn")

\* the handshake carries the transfer size of the download reply
DHandshake(t) ==
  /\ wpc[t] = "d_hs"
  /\ \/ Goto(t, "d_resolve")
        /\ w' = [w EXCEPT ![t].decl = HandshakeSize(Handshake(RefNumOf(t), w[t].xfer))]
        /\ UNCHANGED task
     \/ Fail(t, "handshake failed")
  /\ WorkerFrame

DResolve(t) ==
  /\ wpc[t] = "d_resolve"
  /\ Goto(t, "d_mkdir")
  /\ UNCHANGED <<task, w>>
  /\ WorkerFrame

\* os.MkdirAll of the directory of the local path
DMkdir(t) ==
  /\ wpc[t] = "d_mkdir"
  /\ \/ Goto(t, "d_create") /\ w' = [w EXCEPT ![t].dir = TRUE] /\ UNCHANGED task
     \/ Fail(t, "mkdir failed")
  /\ WorkerFrame

DCreate(t) == OpenStep(t, "d_create", "d_ffo", "create file failed", "file")

\* io.ReadFull of the 24-byte header; the fork count is what the server sent
DReadFFO(t) ==
  /\ wpc[t] = "d_ffo"
  /\ \/ \E fc \in {2, 3} :
          /\ w' = [w EXCEPT ![t].forkCount = fc]
          /\ Goto(t, "d_infohdr") /\ UNCHANGED task
     \/ Fail(t, "read FFO header failed")
  /\ WorkerFrame

DReadInfoHeader(t) == IOStep(t, "d_infohdr", "d_infodata", "read info fork header failed")

DDiscardInfo(t) == IOStep(t, "d_infodata", "d_datahdr", "read info fork failed")

\* the second fork header: its type tag is not looked at, its size field is
\* the size the copy is asked for
DReadDataHeader(t) ==
  /\ wpc[t] = "d_datahdr"
  /\ \/ \E size \in DataSizes, tag \in SecondForkTypes :
          /\ w' = [w EXCEPT ![t].size = size, ![t].tag2 = tag]
          /\ Goto(t, "copy_init") /\ UNCHANGED task
     \/ Fail(t, "read data fork header failed")
  /\ WorkerFrame

\* copyWithProgress / copyWithProgressUpload: written = 0, task.LastBytes = 0
CopyInit(t) ==
  /\ wpc[t] = "copy_init"
  /\ w' = [w EXCEPT ![t].written = 0, ![t].read = 0]
  /\ task' = [task EXCEPT ![t].LastBytes = 0]
  /\ Goto(t, "copy_loop")
  /\ WorkerFrame

CopyErrorLabel(t) ==
  IF kind[t] = "download" THEN "data transfer failed" ELSE "data transfer"

\* src.Read gave n bytes and rerr (read counts the bytes taken from the source);
\* the bytes are written and counted, and the progress message is sent when the
\* ticker has fired
CopyChunk(t, n, rerr, tick) ==
  IF n > 0
    THEN /\ w' = [w EXCEPT ![t].written = @ + n, ![t].rerr = rerr,
                           ![t].read = @ + n,
                           ![t].conn = IF kind[t] = "upload" THEN @ + n ELSE @,
                           ![t].ticks = IF tick THEN @ + 1 ELSE @]
         /\ task' = [task EXCEPT ![t].TransferredBytes = w[t].written + n]
         /\ Goto(t, IF tick THEN "copy_send" ELSE "copy_chk")
    ELSE /\ w' = [w EXCEPT ![t].rerr = rerr]
         /\ UNCHANGED task
         /\ Goto(t, "copy_chk")

\* src.Read gave n bytes and dst.Write failed: the error is returned
CopyWriteFails(t, n) ==
  /\ task' = [task EXCEPT ![t].Status = TaskFailed]
  /\ w' = [w EXCEPT ![t].err = CopyErrorLabel(t), ![t].stage = wpc[t],
                    ![t].read = @ + n]
  /\ Goto(t, "set_err")

\* a turn of the copy loop that asks for one byte more than remains
CopyLoopOverread(t) ==
  /\ wpc[t] = "copy_loop"
  /\ IF w[t].written < w[t].size
       THEN LET toRead == Min(BufSize, w[t].size - w[t].written + 1) IN
            \/ \E n \in 1..toRead, tick \in BOOLEAN : CopyChunk(t, n, "nil", tick)
            \/ \E n \in 0..toRead, tick \in BOOLEAN : CopyChunk(t, n, "EOF", tick)
            \/ \E n \in 0..toRead, tick \in BOOLEAN : CopyChunk(t, n, "err", tick)
            \/ \E n \in 1..toRead : CopyWriteFails(t, n)
       ELSE Goto(t, "copy_final") /\ UNCHANGED <<task, w>>
  /\ WorkerFrame

\* one turn of the copy loop
CopyLoop(t) ==
  /\ wpc[t] = "copy_loop"
  /\ IF w[t].written < w[t].size
       THEN LET toRead == Min(BufSize, w[t].size - w[t].written) IN
            \/ \E n \in 1..toRead, tick \in BOOLEAN : CopyChunk(t, n, "nil", tick)
            \/ \E n \in 0..toRead, tick \in BOOLEAN : CopyChunk(t, n, "EOF", tick)
            \/ \E n \in 0..toRead, tick \in BOOLEAN : CopyChunk(t, n, "err", tick)
            \/ \E n \in 1..toRead : CopyWriteFails(t, n)
       ELSE Goto(t, "copy_final") /\ UNCHANGED <<task, w>>
  /\ WorkerFrame

\* a copy that returns at io.EOF without the final progress message
CopyCheckNoFinal(t) ==
  /\ wpc[t] = "copy_chk"
  /\ CASE w[t].rerr = "EOF" -> Goto(t, "copy_ret") /\ UNCHANGED <<task, w>>
       [] w[t].rerr = "err" -> Fail(t, CopyErrorLabel(t))
       [] OTHER -> Goto(t, "copy_loop") /\ UNCHANGED <<task, w>>
  /\ WorkerFrame

\* after the chunk: break on io.EOF, return any other error
CopyCheck(t) ==
  /\ wpc[t] = "copy_chk"
  /\ CASE w[t].rerr = "EOF" -> Goto(t, "copy_final") /\ UNCHANGED <<task, w>>
       [] w[t].rerr = "err" -> Fail(t, CopyErrorLabel(t))
       [] OTHER -> Goto(t, "copy_loop") /\ UNCHANGED <<task, w>>
  /\ WorkerFrame

\* the copy returned nil
CopyReturn(t) ==
  /\ wpc[t] = "copy_ret"
  /\ Goto(t, IF kind[t] = "download"
               THEN (IF w[t].forkCount = 3 THEN "d_reshdr" ELSE "defer")
               ELSE "u_reshdr")
  /\ UNCHANGED <<task, w>>
  /\ WorkerFrame

\* a resource-fork step whose failure fails the transfer
ResStepFatal(t, from, to) ==
  /\ wpc[t] = from
  /\ \/ Goto(t, to) /\ UNCHANGED <<task, w>>
     \/ /\ task' = [task EXCEPT ![t].Status = TaskFailed]
        /\ w' = [w EXCEPT ![t].resFail = from, ![t].err = "resource fork failed"]
        /\ Goto(t, "set_err")
  /\ WorkerFrame

\* a resource-fork step of a download: a failure is logged and the worker
\* returns; resFail keeps the step that failed
ResStep(t, from, to) ==
  /\ wpc[t] = from
  /\ \/ Goto(t, to) /\ UNCHANGED w
     \/ Goto(t, "defer") /\ w' = [w EXCEPT ![t].resFail = from]
  /\ UNCHANGED task
  /\ WorkerFrame

\* the third fork header: its type tag is not looked at
DReadResHeader(t) ==
  /\ wpc[t] = "d_reshdr"
  /\ \/ \E tag \in ThirdForkTypes :
          Goto(t, "d_rescreate") /\ w' = [w EXCEPT ![t].tag3 = tag]
     \/ Goto(t, "defer") /\ w' = [w EXCEPT ![t].resFail = "d_reshdr"]
  /\ UNCHANGED task
  /\ WorkerFrame

\* os.Create of the sidecar "._name"
DCreateSidecar(t) ==
  /\ wpc[t] = "d_rescreate"
  /\ \/ Goto(t, "d_resad")
        /\ w' = [w EXCEPT ![t] = Opened([@ EXCEPT !.sidecar = TRUE], "sidecar")]
     \/ Goto(t, "defer") /\ w' = [w EXCEPT ![t].resFail = "d_rescreate"]
  /\ UNCHANGED task
  /\ WorkerFrame

DWriteAppleDouble(t) == ResStep(t, "d_resad", "d_rescopy")

DCopyRes(t) == ResStep(t, "d_rescopy", "defer")

\* ---------------------------------------------------- upload worker

\* resInfo.Size() - 82
SidecarResForkSize(sc) == sc.size - AppleDoubleSkip

\* performFileUpload: os.Stat alone decides whether a resource fork is counted
StatHasResourceFork(sc) == sc.present /\ SidecarResForkSize(sc) > 0

\* sendFlattenedFileObject: the sidecar must also open
SendHasResourceFork(sc) == sc.present /\ sc.openable /\ SidecarResForkSize(sc) > 0

\* totalSize of performFileUpload, with Go's uint32 conversions; fileSize is wide
UploadTotalSize(infoLen, fileSize, sc) ==
  LET base == U32(WideAdd(Wide(FFOHeaderLen + infoLen + ForkHeaderLen), fileSize)) IN
  IF StatHasResourceFork(sc)
    THEN U32(WideAdd(base, U32(Wide(ForkHeaderLen + SidecarResForkSize(sc)))))
    ELSE base

UOpen(t) == OpenStep(t, "u_open", "u_stat", "open file failed", "file")

\* file.Stat: the size of the local file now
UStat(t) ==
  /\ wpc[t] = "u_stat"
  /\ \/ \E size \in DataSizes :
          /\ w' = [w EXCEPT ![t].fileSize = size]
          /\ Goto(t, "u_size") /\ UNCHANGED task
     \/ Fail(t, "stat file failed")
  /\ WorkerFrame

\* createInfoFork, the sidecar's os.Stat, and totalSize
UComputeSize(t) ==
  /\ wpc[t] = "u_size"
  /\ \E infoLen \in InfoForkLens, sc \in Sidecars :
       w' = [w EXCEPT ![t].infoLen = infoLen, ![t].sc = sc,
                      ![t].xfer = UploadTotalSize(infoLen, Wide(w[t].fileSize), sc)]
  /\ Goto(t, "u_dial")
  /\ UNCHANGED task
  /\ WorkerFrame

UDial(t) == OpenStep(t, "u_dial", "u_hs", "connection failed", "conn")

UHandshake(t) ==
  /\ wpc[t] = "u_hs"
  /\ \/ Goto(t, "u_ffo")
        /\ w' = [w EXCEPT ![t].decl = HandshakeSize(Handshake(RefNumOf(t), w[t].xfer)),
                          ![t].conn = 0]
        /\ UNCHANGED task
     \/ Fail(t, "handshake failed")
  /\ WorkerFrame

\* sendFlattenedFileObject: the sidecar is opened when it is there and opens,
\* its Close deferred; then the 24-byte header
UWriteFFO(t) ==
  /\ wpc[t] = "u_ffo"
  /\ LET l == IF w[t].sc.present /\ w[t].sc.openable
                THEN Opened(w[t], "sidecar") ELSE w[t] IN
     \/ /\ w' = [w EXCEPT ![t] = [l EXCEPT !.hasRes = SendHasResourceFork(w[t].sc),
                                          !.conn = @ + FFOHeaderLen]]
        /\ Goto(t, "u_info") /\ UNCHANGED task
     \/ /\ task' = [task EXCEPT ![t].Status = TaskFailed]
        /\ w' = [w EXCEPT ![t] = [l EXCEPT !.err = "write FFO header", !.stage = "u_ffo"]]
        /\ Goto(t, "set_err")
  /\ WorkerFrame

UWriteInfo(t) ==
  /\ wpc[t] = "u_info"
  /\ \/ /\ w' = [w EXCEPT ![t].conn = @ + w[t].infoLen]
        /\ Goto(t, "u_datahdr") /\ UNCHANGED task
     \/ Fail(t, "write info fork")
  /\ WorkerFrame

\* the data-fork header, then copyWithProgressUpload(conn, file, fileInfo.Size())
UWriteDataHeader(t) ==
  /\ wpc[t] = "u_datahdr"
  /\ \/ /\ w' = [w EXCEPT ![t].conn = @ + ForkHeaderLen, ![t].size = w[t].fileSize]
        /\ Goto(t, "copy_init") /\ UNCHANGED task
     \/ Fail(t, "write data fork header")
  /\ WorkerFrame

UWriteResHeader(t) ==
  /\ wpc[t] = "u_reshdr"
  /\ IF w[t].hasRes
       THEN \/ /\ w' = [w EXCEPT ![t].conn = @ + ForkHeaderLen]
               /\ Goto(t, "u_rescopy") /\ UNCHANGED task
            \/ Fail(t, "write resource fork header")
       ELSE Goto(t, "defer") /\ UNCHANGED <<task, w>>
  /\ WorkerFrame

\* io.CopyN(conn, resFile, resForkSize)
UCopyRes(t) ==
  /\ wpc[t] = "u_rescopy"
  /\ \/ /\ w' = [w EXCEPT ![t].conn = @ + SidecarResForkSize(w[t].sc)]
        /\ Goto(t, "defer") /\ UNCHANGED task
     \/ Fail(t, "resource fork transfer")
  /\ WorkerFrame

\* ------------------------------------------------------ specification

CmdStep(t) ==
  \/ StartDownload(t) \/ StartUpload(t) \/ StartUploadRejected(t)
  \/ CmdMap(t) \/ CmdSendOk(t) \/ CmdSendFails(t)

ControlStep(t) ==
  \/ ServerReplyDownload(t) \/ ServerReplyUpload(t) \/ ServerReplyError(t)
  \/ ServerReplyAgain(t)

UIStep ==
  \/ \E t \in TaskIds : UIReceiveCmd(t) \/ UIReceiveReply(t) \/ UIReceiveWorker(t)
  \/ UIStatusSetStatus \/ UIStatusSetError \/ UIProgress
  \/ UIDownloadReply \/ UIUploadReply

DownloadStep(t) ==
  \/ DDial(t) \/ DHandshake(t) \/ DResolve(t) \/ DMkdir(t) \/ DCreate(t)
  \/ DReadFFO(t) \/ DReadInfoHeader(t) \/ DDiscardInfo(t) \/ DReadDataHeader(t)
  \/ DReadResHeader(t) \/ DCreateSidecar(t) \/ DWriteAppleDouble(t) \/ DCopyRes(t)

UploadStep(t) ==
  \/ UOpen(t) \/ UStat(t) \/ UComputeSize(t) \/ UDial(t) \/ UHandshake(t)
  \/ UWriteFFO(t) \/ UWriteInfo(t) \/ UWriteDataHeader(t)
  \/ UWriteResHeader(t) \/ UCopyRes(t)

CopyStep(t) ==
  \/ CopyInit(t) \/ CopyLoop(t) \/ CopyCheck(t) \/ CopyReturn(t)

ExitStep(t) == SetError(t) \/ DeferClose(t) \/ DeferComplete(t) \/ DeferStatusMsg(t)

Next ==
  \/ \E t \in TaskIds : CmdStep(t)
  \/ \E t \in TaskIds : ControlStep(t)
  \/ UIStep
  \/ \E t \in TaskIds : DownloadStep(t) \/ UploadStep(t) \/ CopyStep(t) \/ ExitStep(t)

Spec == Init /\ [][Next]_vars

\* ------------------------------------------------------- download paths
\* A file name is the sequence of its characters; a path of the download
\* directory is the name filepath.Join puts after the directory.

\* filepath.Ext: the suffix from the last dot of the last path element
Ext(name) ==
  LET dots == {i \in 1..Len(name) :
                 name[i] = "." /\ \A j \in i..Len(name) : name[j] # "/"} IN
  IF dots = {} THEN << >>
  ELSE LET d == CHOOSE i \in dots : \A j \in dots : j <= i IN
       SubSeq(name, d, Len(name))

\* strings.TrimSuffix
TrimSuffix(s, suffix) ==
  IF Len(suffix) <= Len(s) /\ SubSeq(s, Len(s) - Len(suffix) + 1, Len(s)) = suffix
    THEN SubSeq(s, 1, Len(s) - Len(suffix))
    ELSE s

Digit(d) == <<"0", "1", "2", "3", "4", "5", "6", "7", "8", "9">>[d + 1]

\* %d of a positive int
RECURSIVE Itoa(_)
Itoa(i) == IF i < 10 THEN <<Digit(i)>> ELSE Itoa(i \div 10) \o <<Digit(i % 10)>>

\* fmt.Sprintf("%s (%d)%s", nameWithoutExt, i, ext)
Candidate(fileName, i) ==
  LET ext == Ext(fileName)
      nameWithoutExt == TrimSuffix(fileName, ext) IN
  nameWithoutExt \o <<" ", "(">> \o Itoa(i) \o <<")">> \o ext

\* the path probe number i looks at: the base path for 0
ProbePath(fileName, i) == IF i = 0 THEN fileName ELSE Candidate(fileName, i)

\* os.Stat(path): nil, an error for which os.IsNotExist holds, or another
\* error (EACCES, ENAMETOOLONG, EIO); fs is the set of existing files and errs
\* the probes whose Stat fails with such an error
Stat(fs, errs, fileName, i) ==
  IF i \in errs THEN "error"
  ELSE IF ProbePath(fileName, i) \in fs THEN "nil" ELSE "notexist"

\* --------------------------------------- the codecs on their own inputs
\* The handshake, the upload's total size and the sidecar (AppleDouble) codec
\* are functions of their arguments: SpecWire applies them to inputs drawn
\* from the sets below, sizes up to and beyond 2^32 included.

RefNums == {<<0, 0, 0, 7>>, <<222, 173, 190, 239>>, <<255, 0, 1, 128>>}

\* uint32 values: 0, 1, 1024, 2^16, 0x12345678, 2^32 - 1
Sizes32 == {Wide(0), Wide(1), Wide(1024), <<1, 0>>, <<4660, 22136>>, <<65535, 65535>>}

\* sizes of the local file (int64): 0, 1, 5000, around 2^32 less the headers,
\* 2^32 - 1, 2^32, 2^32 + 5000
UploadSizes ==
  {Wide(0), Wide(1), Wide(5000), <<65535, 65404>>, <<65535, 65405>>,
   <<65535, 65535>>, <<65536, 0>>, <<65536, 5000>>}

ResSizes == 1..MaxRes

\* the bytes of a resource fork of n bytes, each byte telling its place
Payload(n) == [i \in 1..n |-> (i * 7) % 256]

CxInputs ==
  {[NoCx EXCEPT !.pc = "in", !.fn = "download", !.refNum = r, !.size = sz] :
     r \in RefNums, sz \in Sizes32}
  \cup
  {[NoCx EXCEPT !.pc = "in", !.fn = "upload", !.refNum = r, !.size = sz,
                !.infoLen = il, !.sc = sc] :
     r \in RefNums, sz \in UploadSizes, il \in InfoForkLens, sc \in Sidecars}
  \cup
  {[NoCx EXCEPT !.pc = "in", !.fn = "appledouble", !.size = sz] : sz \in Sizes32}
  \cup
  {[NoCx EXCEPT !.pc = "in", !.fn = "sidecar", !.n = n] : n \in ResSizes}

WireFrame == UNCHANGED <<task, tmTasks, tmOrder, pendingDownloads, pendingUploads,
                         cpc, kind, ctl, ctlMsg, uiPc, uiMsg, wpc, w, sent>>

\* performFileTransfer: the handshake with the transfer size of the reply
WireDownloadHandshake ==
  /\ cx.pc = "in" /\ cx.fn = "download"
  /\ cx' = [cx EXCEPT !.pc = "out", !.out = Handshake(cx.refNum, cx.size)]
  /\ WireFrame

\* performFileUpload: totalSize, then the handshake
WireUploadHandshake ==
  /\ cx.pc = "in" /\ cx.fn = "upload"
  /\ cx' = [cx EXCEPT !.pc = "out",
                      !.out = Handshake(cx.refNum,
                                UploadTotalSize(cx.infoLen, cx.size, cx.sc))]
  /\ WireFrame

\* the type tags "DATA" and "MACR" as bytes
TagDATA == <<68, 65, 84, 65>>
TagMACR == <<77, 65, 67, 82>>

\* a 16-byte fork header: the tag, 8 zero bytes, the size as a big-endian uint32
ForkHeader(tag, size) == tag \o Zeros(8) \o PutUint32BE(size)

\* initiateFileUpload: FieldTransferSize is uint32(fileInfo.Size())
TransferSizeField(fileSize) == PutUint32BE(U32(fileSize))

\* sendFlattenedFileObject: the fork headers with uint32(fileInfo.Size()) and
\* uint32(resForkSize); the request's transfer-size field
WireUploadHeaders ==
  /\ cx.pc = "out" /\ cx.fn = "upload"
  /\ cx' = [cx EXCEPT !.pc = "hdrs",
                      !.req = TransferSizeField(cx.size),
                      !.dhdr = ForkHeader(TagDATA, U32(cx.size)),
                      !.rhdr = IF SendHasResourceFork(cx.sc)
                                 THEN ForkHeader(TagMACR,
                                        U32(Wide(SidecarResForkSize(cx.sc))))
                                 ELSE << >>]
  /\ WireFrame

\* writeAppleDoubleHeader: it returns at the first write that fails
WireAppleDouble ==
  /\ cx.pc = "in" /\ cx.fn = "appledouble"
  /\ \E k \in 0..AppleDoubleWriteCount :
       cx' = [cx EXCEPT !.pc = "out", !.k = k,
                        !.out = AppleDoubleHeader(cx.size, k)]
  /\ WireFrame

\* performFileTransfer: the sidecar is the header followed by the n payload bytes
WireWriteSidecar ==
  /\ cx.pc = "in" /\ cx.fn = "sidecar"
  /\ cx' = [cx EXCEPT !.pc = "written",
                      !.file = AppleDoubleHeader(Wide(cx.n), AppleDoubleWriteCount)
                                 \o Payload(cx.n)]
  /\ WireFrame

\* a later upload of the same local file: os.Stat of the sidecar, Seek(82, 0)
WireStatSidecar ==
  /\ cx.pc = "written"
  /\ LET sc == [present |-> TRUE, size |-> Len(cx.file), openable |-> TRUE] IN
       cx' = [cx EXCEPT !.pc = "stat", !.sc = sc,
                        !.hasRes = SendHasResourceFork(sc)]
  /\ WireFrame

\* sendFlattenedFileObject: the resource-fork header and io.CopyN from offset 82
WireSendSidecar ==
  /\ cx.pc = "stat"
  /\ IF cx.hasRes
       THEN cx' = [cx EXCEPT !.pc = "out",
                     !.resDecl = U32(Wide(SidecarResForkSize(cx.sc))),
                     !.resOut = SubSeq(cx.file, AppleDoubleSkip + 1,
                                       AppleDoubleSkip + SidecarResForkSize(cx.sc))]
       ELSE cx' = [cx EXCEPT !.pc = "out"]
  /\ WireFrame

\* file names a server can list
FileNames ==
  { <<"a", ".", "t", "x", "t">>, <<"a">>, <<".", "r", "c">>,
    <<"a", ".", "b", ".", "c">> }

\* a download directory: any of the base path and its first candidates present
Directories(fileName) == SUBSET {ProbePath(fileName, i) : i \in 0..MaxProbe}

\* the probes whose os.Stat fails: none, the base path, one candidate, or
\* every path (a directory that cannot be searched, names that are too long)
StatFailures == {{}, {0}, {1}, 0..(MaxProbe + 2), 1..(MaxProbe + 2)}

ResolveInputs ==
  {[NoCx EXCEPT !.pc = "in", !.fn = "resolve", !.name = nm, !.fs = fs, !.errs = e] :
     nm \in FileNames, fs \in UNION {Directories(x) : x \in FileNames},
     e \in StatFailures}

\* resolveDownloadPath: os.Stat(basePath); err == nil starts the renaming loop
WireResolveBase ==
  /\ cx.pc = "in" /\ cx.fn = "resolve"
  /\ IF Stat(cx.fs, cx.errs, cx.name, 0) = "nil"
       THEN cx' = [cx EXCEPT !.pc = "probe", !.i = 1]
       ELSE cx' = [cx EXCEPT !.pc = "out", !.path = cx.name]
  /\ WireFrame

\* resolveDownloadPath: one turn of for i := 1; ; i++
WireResolveProbe ==
  /\ cx.pc = "probe" /\ cx.i <= MaxProbe + 1
  /\ IF Stat(cx.fs, cx.errs, cx.name, cx.i) = "notexist"
       THEN cx' = [cx EXCEPT !.pc = "out", !.path = Candidate(cx.name, cx.i)]
       ELSE cx' = [cx EXCEPT !.i = @ + 1]
  /\ WireFrame

InitWire ==
  /\ task = << >>
  /\ tmTasks = << >>
  /\ tmOrder = << >>
  /\ pendingDownloads = << >>
  /\ pendingUploads = << >>
  /\ cpc = [t \in TaskIds |-> "idle"]
  /\ kind = [t \in TaskIds |-> "none"]
  /\ ctl = [t \in TaskIds |-> "none"]
  /\ ctlMsg = [t \in TaskIds |-> NoMsg]
  /\ uiPc = "idle"
  /\ uiMsg = NoMsg
  /\ wpc = [t \in TaskIds |-> "idle"]
  /\ w = [t \in TaskIds |-> NoLocals]
  /\ sent = [t \in TaskIds |-> << >>]
  /\ cx \in CxInputs \cup ResolveInputs

NextWire ==
  \/ WireUploadHeaders
  \/ WireDownloadHandshake \/ WireUploadHandshake \/ WireAppleDouble
  \/ WireWriteSidecar \/ WireStatSidecar \/ WireSendSidecar
  \/ WireResolveBase \/ WireResolveProbe

SpecWire == InitWire /\ [][NextWire]_vars

\* ------------------------------------------- the TaskManager on its own
\* Several goroutines allocate Tasks and add them, the tasks change status as
\* their reply handler and worker make them, and readers call Get, GetActive
\* and GetCompleted at any time. The mutex of the TaskManager makes each
\* method one step. cx keeps what was added and in which order tasks ended,
\* and, until the reader has returned, the result of a read with what was
\* true when it was made.

Pointers == 1..MaxTasks

\* the id strings a reader can ask for: more than are ever handed out
IdSpace == 1..(MaxTasks + 1)

\* an id generator that can repeat an id
UuidAny == IdSpace

\* uuid.New().String(): an id no Task has
UuidNew == IdSpace \ {task[p].ID : p \in DOMAIN task}

TMFrame == UNCHANGED <<pendingDownloads, pendingUploads, cpc, kind, ctl, ctlMsg,
                       uiPc, uiMsg, wpc, w, sent>>

\* task := &Task{ID: uuid.New().String(), Status: TaskPending, ...}
TMNewTask ==
  /\ cx.op = ""
  /\ Cardinality(DOMAIN task) < MaxTasks
  /\ \E id \in UuidNew :
       task' = task @@ ((Cardinality(DOMAIN task) + 1) :> NewTask(id, 0))
  /\ UNCHANGED <<tmTasks, tmOrder, cx>>
  /\ TMFrame

\* taskManager.Add(task), by the goroutine that allocated it
TMAddCall(p) ==
  /\ cx.op = ""
  /\ p \in DOMAIN task /\ p \notin cx.added
  /\ Add(p, task[p].ID)
  /\ cx' = [cx EXCEPT !.added = @ \cup {p}]
  /\ UNCHANGED task
  /\ TMFrame

\* the reply handler found the task and started its worker
TMActivate(p) ==
  /\ cx.op = ""
  /\ p \in cx.added /\ task[p].Status = TaskPending
  /\ task' = [task EXCEPT ![p].Status = TaskActive]
  /\ UNCHANGED <<tmTasks, tmOrder, cx>>
  /\ TMFrame

\* the worker of the task ended
TMFinish(p) ==
  /\ cx.op = ""
  /\ p \in cx.added /\ task[p].Status = TaskActive
  /\ \E s \in {TaskCompleted, TaskFailed} :
       task' = [task EXCEPT ![p].Status = s, ![p].EndSet = TRUE,
                            ![p].Error = IF s = TaskFailed THEN "failed" ELSE NoError]
  /\ cx' = [cx EXCEPT !.ended = Append(@, p)]
  /\ UNCHANGED <<tmTasks, tmOrder>>
  /\ TMFrame

\* a reader's call: its result, and what had been added and had ended then
TMRead(op, arg, res) ==
  /\ cx.op = ""
  /\ cx' = [cx EXCEPT !.op = op, !.arg = arg, !.res = res,
                      !.addedAt = cx.added, !.endedAt = cx.ended]
  /\ UNCHANGED <<task, tmTasks, tmOrder>>
  /\ TMFrame

TMGet == \E id \in IdSpace : TMRead("Get", id, <<Get(id)>>)

TMGetActive == TMRead("GetActive", 0, GetActive)

TMGetCompleted ==
  \E limit \in -1..MaxTasks : TMRead("GetCompleted", limit, GetCompleted(limit))

\* the reader has its result and returns
TMReturn ==
  /\ cx.op # ""
  /\ cx' = [cx EXCEPT !.op = "", !.arg = 0, !.res = << >>,
                      !.addedAt = {}, !.endedAt = << >>]
  /\ UNCHANGED <<task, tmTasks, tmOrder>>
  /\ TMFrame

InitTM == Init

NextTM ==
  \/ TMNewTask
  \/ \E p \in Pointers : TMAddCall(p) \/ TMActivate(p) \/ TMFinish(p)
  \/ TMGet \/ TMGetActive \/ TMGetCompleted \/ TMReturn

SpecTM == InitTM /\ [][NextTM]_vars

\* --------------------------------- two downloads of one file name at once
\* Two download workers run lines 312-336 of performFileTransfer for the same
\* file name in one download directory: resolveDownloadPath, then os.Create.
\* Every os.Stat answers from the directory as it is at that moment.

Racers == {1, 2}

RaceInputs ==
  {[NoCx EXCEPT !.pc = "run", !.fn = "race", !.name = nm, !.fs = fs,
                !.rpc = [k \in Racers |-> "stat"],
                !.ri = [k \in Racers |-> 0],
                !.rpath = [k \in Racers |-> << >>]] :
     nm \in FileNames, fs \in UNION {Directories(x) : x \in FileNames}}

\* resolveDownloadPath of worker k: os.Stat(basePath)
RaceResolveBase(k) ==
  /\ cx.fn = "race" /\ cx.rpc[k] = "stat"
  /\ IF Stat(cx.fs, {}, cx.name, 0) = "nil"
       THEN cx' = [cx EXCEPT !.rpc[k] = "probe", !.ri[k] = 1]
       ELSE cx' = [cx EXCEPT !.rpc[k] = "create", !.rpath[k] = cx.name]
  /\ WireFrame

\* resolveDownloadPath of worker k: one turn of the renaming loop
RaceResolveProbe(k) ==
  /\ cx.fn = "race" /\ cx.rpc[k] = "probe"
  /\ IF Stat(cx.fs, {}, cx.name, cx.ri[k]) = "notexist"
       THEN cx' = [cx EXCEPT !.rpc[k] = "create",
                             !.rpath[k] = Candidate(cx.name, cx.ri[k])]
       ELSE cx' = [cx EXCEPT !.ri[k] = @ + 1]
  /\ WireFrame

\* task.LocalPath = localPath; os.MkdirAll; os.Create(localPath), which
\* truncates a file that is there, or fails
RaceCreate(k) ==
  /\ cx.fn = "race" /\ cx.rpc[k] = "create"
  /\ \/ cx' = [cx EXCEPT !.rpc[k] = "writing", !.fs = @ \cup {cx.rpath[k]}]
     \/ cx' = [cx EXCEPT !.rpc[k] = "failed"]
  /\ WireFrame

\* the worker has written its file and returns
RaceFinish(k) ==
  /\ cx.fn = "race" /\ cx.rpc[k] = "writing"
  /\ cx' = [cx EXCEPT !.rpc[k] = "done"]
  /\ WireFrame

InitRace ==
  /\ task = << >>
  /\ tmTasks = << >>
  /\ tmOrder = << >>
  /\ pendingDownloads = << >>
  /\ pendingUploads = << >>
  /\ cpc = [t \in TaskIds |-> "idle"]
  /\ kind = [t \in TaskIds |-> "none"]
  /\ ctl = [t \in TaskIds |-> "none"]
  /\ ctlMsg = [t \in TaskIds |-> NoMsg]
  /\ uiPc = "idle"
  /\ uiMsg = NoMsg
  /\ wpc = [t \in TaskIds |-> "idle"]
  /\ w = [t \in TaskIds |-> NoLocals]
  /\ sent = [t \in TaskIds |-> << >>]
  /\ cx \in RaceInputs

NextRace ==
  \E k \in Racers :
    RaceResolveBase(k) \/ RaceResolveProbe(k) \/ RaceCreate(k) \/ RaceFinish(k)

SpecRace == InitRace /\ [][NextRace]_vars

\* -------------------------------- the pending maps under several initiations
\* Two transfers are initiated at once: bubbletea runs each tea.Cmd function in
\* a goroutine of its own, and the UI loop handles the replies. An access to a
\* Go map takes time: it begins and it ends, and nothing in the code keeps two
\* goroutines from being inside accesses to the same map. A write that overlaps
\* with another access is a data race on the map: the Go runtime then either
\* stops the process ("fatal error: concurrent map writes") or lets both go on,
\* and the entry is stored or is lost.

Initiators == {1, 2}

TransferKinds == {"download", "upload"}

MapsStart ==
  [NoCx EXCEPT !.pc = "run", !.fn = "maps",
               !.mpc = [k \in Initiators |-> "idle"],
               !.mkind = [k \in Initiators |-> ""],
               !.mraced = [k \in Initiators |-> FALSE],
               !.mfound = [k \in Initiators |-> ""]]

\* the goroutines that are inside an access to the pending map of kind kd
Writers(kd) == {k \in Initiators : cx.mpc[k] = "writing" /\ cx.mkind[k] = kd}

UIInside(kd) == cx.upc = "access" /\ cx.mkind[cx.umsg] = kd

MapFrame == UNCHANGED <<cpc, kind, ctl, ctlMsg, uiPc, uiMsg, wpc, w, sent>>

MapsRunning == cx.fn = "maps" /\ ~cx.crashed

\* the tea.Cmd function up to taskManager.Add (under the TaskManager's lock)
MapInitiate(k) ==
  /\ MapsRunning /\ cx.mpc[k] = "idle"
  /\ Register(k, 0)
  /\ \E kd \in TransferKinds : cx' = [cx EXCEPT !.mpc[k] = "write", !.mkind[k] = kd]
  /\ UNCHANGED <<pendingDownloads, pendingUploads>>
  /\ MapFrame

\* pendingDownloads[t.ID] = taskID / pendingUploads[t.ID] = task.ID begins
MapWriteBegin(k) ==
  /\ MapsRunning /\ cx.mpc[k] = "write"
  /\ LET others == Writers(cx.mkind[k])
         overlap == others # {} \/ UIInside(cx.mkind[k]) IN
       cx' = [cx EXCEPT !.mpc[k] = "writing",
                        !.mraced = [j \in Initiators |->
                                      IF j = k THEN overlap
                                      ELSE cx.mraced[j] \/ j \in others],
                        !.uraced = @ \/ UIInside(cx.mkind[k])]
  /\ UNCHANGED <<task, tmTasks, tmOrder, pendingDownloads, pendingUploads>>
  /\ MapFrame

\* the entry of transfer k is in the map of its kind
StoreEntry(k) ==
  IF cx.mkind[k] = "download"
    THEN /\ pendingDownloads' = pendingDownloads @@ (k :> k)
         /\ UNCHANGED pendingUploads
    ELSE /\ pendingUploads' = pendingUploads @@ (k :> k)
         /\ UNCHANGED pendingDownloads

\* the map write ends: the entry is stored, unless the write raced
MapWriteEnd(k) ==
  /\ MapsRunning /\ cx.mpc[k] = "writing"
  /\ \/ StoreEntry(k) /\ cx' = [cx EXCEPT !.mpc[k] = "send"]
     \/ /\ cx.mraced[k]
        /\ UNCHANGED <<pendingDownloads, pendingUploads>>
        /\ \/ cx' = [cx EXCEPT !.mpc[k] = "send"]
           \/ cx' = [cx EXCEPT !.crashed = TRUE]
  /\ UNCHANGED <<task, tmTasks, tmOrder>>
  /\ MapFrame

\* hlClient.Send(t), and the function returns
MapSend(k) ==
  /\ MapsRunning /\ cx.mpc[k] = "send"
  /\ \/ cx' = [cx EXCEPT !.mpc[k] = "sent"]
     \/ cx' = [cx EXCEPT !.mpc[k] = "done"]
  /\ UNCHANGED <<task, tmTasks, tmOrder, pendingDownloads, pendingUploads>>
  /\ MapFrame

\* the server's reply to the request of k reaches the UI loop, whose handler
\* begins its accesses to the map (lookup, delete)
MapHandleBegin(k) ==
  /\ MapsRunning /\ cx.mpc[k] = "sent" /\ cx.upc = "idle"
  /\ LET others == Writers(cx.mkind[k]) IN
       cx' = [cx EXCEPT !.mpc[k] = "handling", !.upc = "access", !.umsg = k,
                        !.uraced = others # {},
                        !.mraced = [j \in Initiators |-> cx.mraced[j] \/ j \in others]]
  /\ UNCHANGED <<task, tmTasks, tmOrder, pendingDownloads, pendingUploads>>
  /\ MapFrame

\* handleDownloadReplyMsg / handleUploadReplyMsg: the entry is looked up and
\* deleted, and a Task that was found is set Active
MapHandleEnd ==
  /\ MapsRunning /\ cx.upc = "access"
  /\ LET k == cx.umsg
         m == IF cx.mkind[k] = "download" THEN pendingDownloads ELSE pendingUploads
         id == Get(Lookup(m, k)) IN
       \/ /\ IF cx.mkind[k] = "download"
               THEN /\ pendingDownloads' = Delete(pendingDownloads, k)
                    /\ UNCHANGED pendingUploads
               ELSE /\ pendingUploads' = Delete(pendingUploads, k)
                    /\ UNCHANGED pendingDownloads
          /\ IF id = 0 THEN UNCHANGED task
                       ELSE task' = [task EXCEPT ![id].Status = TaskActive]
          /\ cx' = [cx EXCEPT !.upc = "idle", !.mpc[k] = "done", !.uraced = FALSE,
                              !.mfound[k] = IF id = 0 THEN "missing" ELSE "found"]
       \/ /\ cx.uraced
          /\ cx' = [cx EXCEPT !.crashed = TRUE]
          /\ UNCHANGED <<task, pendingDownloads, pendingUploads>>
  /\ UNCHANGED <<tmTasks, tmOrder>>
  /\ MapFrame

InitMaps ==
  /\ task = << >>
  /\ tmTasks = << >>
  /\ tmOrder = << >>
  /\ pendingDownloads = << >>
  /\ pendingUploads = << >>
  /\ cpc = [t \in TaskIds |-> "idle"]
  /\ kind = [t \in TaskIds |-> "none"]
  /\ ctl = [t \in TaskIds |-> "none"]
  /\ ctlMsg = [t \in TaskIds |-> NoMsg]
  /\ uiPc = "idle"
  /\ uiMsg = NoMsg
  /\ wpc = [t \in TaskIds |-> "idle"]
  /\ w = [t \in TaskIds |-> NoLocals]
  /\ sent = [t \in TaskIds |-> << >>]
  /\ cx = MapsStart

NextMaps ==
  \/ \E k \in Initiators :
       \/ MapInitiate(k) \/ MapWriteBegin(k) \/ MapWriteEnd(k) \/ MapSend(k)
       \/ MapHandleBegin(k)
  \/ MapHandleEnd

SpecMaps == InitMaps /\ [][NextMaps]_vars

\* ------------------------------------------------------------- claims

Terminal == {TaskCompleted, TaskFailed}

ForwardSteps ==
  {<<TaskPending, TaskActive>>, <<TaskActive, TaskCompleted>>,
   <<TaskActive, TaskFailed>>}

\* C1: over every interleaving of the UI loop with the worker, a Task's Status
\* only changes Pending->Active, Active->Completed or Active->Failed: it never
\* moves backward and never leaves Completed or Failed.
C1_StatusOnlyForward ==
  [][\A t \in DOMAIN task :
       task'[t].Status # task[t].Status =>
         <<task[t].Status, task'[t].Status>> \in ForwardSteps]_vars

\* C2: whenever a download Task is Completed, TransferredBytes = TotalBytes and
\* both equal the data-fork size declared in the data-fork header.
C2_CompletedDownloadSizes ==
  \A t \in DOMAIN task :
    (kind[t] = "download" /\ task[t].Status = TaskCompleted) =>
      /\ task[t].TransferredBytes = task[t].TotalBytes
      /\ task[t].TotalBytes = w[t].size

\* C3: the progress copy returns success only when exactly the declared number
\* of bytes was written; after an early end-of-stream the Task ends Failed, not
\* Completed.
C3_CopySuccessIsExact ==
  \A t \in TaskIds :
    /\ wpc[t] = "copy_ret" => w[t].written = w[t].size
    /\ (wpc[t] = "done" /\ w[t].rerr = "EOF" /\ w[t].written < w[t].size) =>
         task[t].Status = TaskFailed

StatusEvents(t) == SelectSeq(sent[t], LAMBDA m : m.type = "status")

\* C4: each worker sends exactly one task-status event on every exit path, and
\* it carries a terminal Status together with the Task's Error, nil exactly when
\* Completed.
C4_OneTerminalStatusEvent ==
  \A t \in TaskIds :
    /\ Len(StatusEvents(t)) <= 1
    /\ wpc[t] = "done" => Len(StatusEvents(t)) = 1
    /\ \A i \in 1..Len(StatusEvents(t)) :
         /\ StatusEvents(t)[i].status \in Terminal
         /\ StatusEvents(t)[i].err = NoError <=>
              StatusEvents(t)[i].status = TaskCompleted

WorkerRunning(t) == wpc[t] \notin {"idle", "done"}

\* the UI loop takes a handler step that writes fields of Task t
UIWritesTask(t) ==
  /\ uiPc \in {"status1", "status2", "progress"}
  /\ uiMsg.id = t /\ Get(t) # 0
  /\ uiPc' # uiPc

\* C5: while a transfer worker is running for a Task, no other goroutine (the
\* UI loop's task-progress and task-status handlers) writes that Task's fields.
C5_SingleWriterPerTask ==
  [][\A t \in TaskIds : UIWritesTask(t) => ~WorkerRunning(t)]_vars

\* C10: in every upload that ends Completed, the total size declared in the
\* handshake equals the number of bytes written on the transfer connection
\* after the handshake, whatever the state of the sidecar file.
C10_DeclaredEqualsWritten ==
  \A t \in DOMAIN task :
    (kind[t] = "upload" /\ wpc[t] = "done" /\ task[t].Status = TaskCompleted) =>
      w[t].decl = Wide(w[t].conn)

\* C6: for every N >= 1, the sidecar a download writes for an N-byte resource
\* fork is read back by a later upload (from offset 82, length size - 82) as
\* exactly the original N bytes, with a resource fork of declared size N.
C6_SidecarRoundTrip ==
  (cx.fn = "sidecar" /\ cx.pc = "out") =>
    /\ cx.hasRes
    /\ cx.resOut = Payload(cx.n)
    /\ cx.resDecl = Wide(cx.n)

\* C7: writeAppleDoubleHeader writes exactly 82 bytes: magic, version, 16 zero
\* bytes, entry count 1, one descriptor with id 2, offset 82 and the big-endian
\* length, so that the payload written next starts at the declared offset 82.
C7_AppleDoubleHeaderIs82Bytes ==
  (cx.fn = "appledouble" /\ cx.pc = "out" /\ cx.k = AppleDoubleWriteCount) =>
    /\ Len(cx.out) = 82
    /\ SubSeq(cx.out, 1, 4) = <<0, 5, 22, 7>>
    /\ SubSeq(cx.out, 5, 8) = <<0, 2, 0, 0>>
    /\ SubSeq(cx.out, 9, 24) = Zeros(16)
    /\ SubSeq(cx.out, 25, 26) = <<0, 1>>
    /\ SubSeq(cx.out, 27, 30) = <<0, 0, 0, 2>>
    /\ Uint32BE(SubSeq(cx.out, 31, 34)) = Wide(Len(cx.out))
    /\ Uint32BE(SubSeq(cx.out, 35, 38)) = cx.size

IsByte(b) == b \in 0..255

\* C8: the handshake a download or upload worker writes is exactly 16 bytes:
\* ASCII "HTXF", the 4 bytes of the reference number unchanged, the size as a
\* big-endian uint32, then 4 zero bytes; for r = 00 00 00 07 and s = 1024 it is
\* 48 54 58 46 00 00 00 07 00 00 04 00 00 00 00 00.
C8_HandshakeBytes ==
  (cx.fn \in {"download", "upload"} /\ cx.pc = "out") =>
    LET s == IF cx.fn = "download" THEN cx.size
             ELSE UploadTotalSize(cx.infoLen, cx.size, cx.sc) IN
    /\ Len(cx.out) = 16
    /\ \A i \in 1..16 : IsByte(cx.out[i])
    /\ <<cx.out[1], cx.out[2], cx.out[3], cx.out[4]>> = <<72, 84, 88, 70>>
    /\ <<cx.out[5], cx.out[6], cx.out[7], cx.out[8]>> = cx.refNum
    /\ ((cx.out[9] * 256 + cx.out[10]) = s[1] /\ (cx.out[11] * 256 + cx.out[12]) = s[2])
    /\ <<cx.out[13], cx.out[14], cx.out[15], cx.out[16]>> = <<0, 0, 0, 0>>
    /\ (cx.refNum = <<0, 0, 0, 7>> /\ s = Wide(1024)) =>
         cx.out = <<72, 84, 88, 70, 0, 0, 0, 7, 0, 0, 4, 0, 0, 0, 0, 0>>

\* a download handshake for reference number 00 00 00 07 and size 1024 was written
C8_Witness ==
  /\ cx.fn = "download" /\ cx.pc = "out"
  /\ cx.refNum = <<0, 0, 0, 7>> /\ cx.size = Wide(1024)
  /\ cx.out[11] = 4

\* C9: in an upload of a local file of D bytes that has no sidecar, the size
\* field of the handshake equals 24 + (length of the encoded info fork) + 16 + D.
C9_UploadHandshakeSize ==
  (cx.fn = "upload" /\ cx.pc = "out" /\ ~cx.sc.present) =>
    HandshakeSize(cx.out) = WideAdd(Wide(24 + cx.infoLen + 16), cx.size)

\* both writers of Status and Error are between statements, not between the
\* assignment of Status and the assignment of Error
BetweenStatements(t) == wpc[t] # "set_err" /\ ~(uiPc = "status2" /\ uiMsg.id = t)

\* C11: Task.Error is non-nil exactly when Task.Status is Failed, under every
\* interleaving of the worker with the UI loop's task-status handler; stated
\* for the states in which neither writer is halfway through its two
\* assignments.
C11_ErrorIffFailed ==
  \A t \in DOMAIN task :
    BetweenStatements(t) =>
      (task[t].Error # NoError <=> task[t].Status = TaskFailed)

ExitPath == {"set_err", "defer", "defer_compl", "defer_msg", "defer_send", "done"}

\* the stage label of each fatal step of a download
DownloadStageLabel(pc) ==
  CASE pc = "d_dial" -> "connection failed"
    [] pc = "d_hs" -> "handshake failed"
    [] pc = "d_mkdir" -> "mkdir failed"
    [] pc = "d_create" -> "create file failed"
    [] pc = "d_ffo" -> "read FFO header failed"
    [] pc = "d_infohdr" -> "read info fork header failed"
    [] pc = "d_infodata" -> "read info fork failed"
    [] pc = "d_datahdr" -> "read data fork header failed"
    [] pc \in {"copy_loop", "copy_chk"} -> "data transfer failed"
    [] OTHER -> "no label"

C13_ResourceForkFailureIgnored ==
  \A t \in DOMAIN task :
    (kind[t] = "download" /\ w[t].resFail # "") =>
      /\ task[t].Status \in {TaskActive, TaskCompleted}
      /\ task[t].Error = NoError
      /\ wpc[t] = "done" => task[t].Status = TaskCompleted
      /\ \A i \in 1..Len(sent[t]) :
           sent[t][i].type = "status" =>
             sent[t][i].status = TaskCompleted /\ sent[t][i].err = NoError

\* a download whose resource-fork copy failed has ended Completed
C13_Witness ==
  /\ kind[1] = "download" /\ wpc[1] = "done" /\ uiPc = "idle"
  /\ w[1].resFail = "d_rescopy" /\ w[1].sidecar
  /\ task[1].Status = TaskCompleted

\* an error occurred at some stage of upload t
UploadStageError(t) ==
  \/ w[t].err # NoError
  \/ (wpc[t] \notin {"u_open", "u_stat", "u_size"} /\ w[t].infoLen = 0)
  \/ (w[t].sc.present /\ ~w[t].sc.openable)

\* C14: in an upload, an I/O or protocol error at any stage (building the info
\* fork and opening the sidecar included) ends the Task Failed with the error
\* attached; stated here by its last part: no such error lets the Task end
\* Completed.
C14_UploadErrorIsFatal ==
  \A t \in DOMAIN task :
    (kind[t] = "upload" /\ wpc[t] = "done" /\ UploadStageError(t)) =>
      task[t].Status # TaskCompleted

\* C15: a download whose container header declares forkCount = 2 and whose
\* data-fork header declares size 0 ends Completed with TotalBytes = 0,
\* TransferredBytes = 0, an empty local file and no sidecar file.
C15_EmptyDownload ==
  \A t \in DOMAIN task :
    (kind[t] = "download" /\ wpc[t] = "done" /\ w[t].err = NoError
       /\ w[t].forkCount = 2 /\ w[t].size = 0) =>
      /\ task[t].Status = TaskCompleted
      /\ task[t].TotalBytes = 0
      /\ task[t].TransferredBytes = 0
      /\ w[t].written = 0
      /\ ~w[t].sidecar

\* C17: GetActive returns exactly the tasks whose Status is Pending or Active,
\* each once, in the order of their Add calls; a task that reached Completed
\* or Failed never appears in a later GetActive result.
C17_GetActive ==
  [][/\ \A p \in DOMAIN task :
          Cardinality({i \in DOMAIN GetActive : GetActive[i] = p}) =
            (IF task[p].Status \in {TaskPending, TaskActive} THEN 1 ELSE 0)
     /\ \A p \in DOMAIN task :
          task[p].Status \in Terminal =>
            \A i \in DOMAIN GetActive' : GetActive'[i] # p]_vars

Max(a, b) == IF a > b THEN a ELSE b

\* the last n elements of e, newest first
NewestFirst(e, n) == [i \in 1..Min(n, Len(e)) |-> e[Len(e) + 1 - i]]

\* C16: GetCompleted(limit) returns at most limit tasks, all of them Completed
\* or Failed, newest first by completion (for completion order A, B, C and
\* limit 2: C, B, whatever the order they were added in); none for limit <= 0.
C16_GetCompletedNewestFirst ==
  cx.op = "GetCompleted" =>
    /\ Len(cx.res) <= Max(cx.arg, 0)
    /\ \A i \in 1..Len(cx.res) : \E j \in 1..Len(cx.endedAt) : cx.endedAt[j] = cx.res[i]
    /\ cx.res = NewestFirst(cx.endedAt, Max(cx.arg, 0))

\* C18: the order sequence contains every registered Task ID exactly once, its
\* set of IDs is the key set of the task map (so no reader finds in order an ID
\* missing from the map), and every Task is registered under an ID no other
\* Task has.
C18_OrderMatchesMap ==
  /\ \A i, j \in 1..Len(tmOrder) : tmOrder[i] = tmOrder[j] => i = j
  /\ {tmOrder[i] : i \in 1..Len(tmOrder)} = DOMAIN tmTasks
  /\ {task[p].ID : p \in cx.added} = DOMAIN tmTasks
  /\ Len(tmOrder) = Cardinality(cx.added)
  /\ \A p, q \in DOMAIN task : task[p].ID = task[q].ID => p = q

\* every Task was added and a reader has run since
C18_Witness ==
  /\ Cardinality(cx.added) = MaxTasks /\ Len(tmOrder) = MaxTasks
  /\ cx.op = "GetActive" /\ cx.addedAt = cx.added

\* what Get(id) must give when the tasks of the set added were added
Registered(added, id) ==
  IF \E p \in added : task[p].ID = id
    THEN CHOOSE p \in added : task[p].ID = id
    ELSE 0

\* C19: tasks are never removed: once Add(t) has returned, Get(t.ID) returns t
\* in every later state, whatever the task's status; Get of an ID that was
\* never added returns nil.
C19_GetAfterAdd ==
  /\ \A p \in cx.added : Get(task[p].ID) = p
  /\ \A id \in IdSpace : Get(id) = Registered(cx.added, id)
  /\ cx.op = "Get" => cx.res = <<Registered(cx.addedAt, cx.arg)>>

\* Get found a task that had ended, added before the others, and Get of an id
\* nobody has gives nil
C19_Witness ==
  /\ cx.op = "Get" /\ Cardinality(cx.added) = MaxTasks
  /\ cx.res = <<1>> /\ task[1].Status \in Terminal
  /\ \E id \in IdSpace : Get(id) = 0

\* the path the claim names: the base path when it does not exist, else the
\* candidate of the smallest i >= 1 that does not exist
FirstFree(fileName, fs) ==
  IF fileName \notin fs THEN fileName
  ELSE LET i == CHOOSE k \in 1..(MaxProbe + 1) :
                  /\ Candidate(fileName, k) \notin fs
                  /\ \A j \in 1..(k - 1) : Candidate(fileName, j) \in fs IN
       Candidate(fileName, i)

\* C20: resolveDownloadPath returns downloadDir/name when that path does not
\* exist, otherwise 'stem (i)ext' for the smallest i >= 1 whose path does not
\* exist ('a (2).txt' when 'a.txt' and 'a (1).txt' are present, 'a.txt' in an
\* empty directory); it always returns, and never a path that exists.
C20_ResolveDownloadPath ==
  cx.fn = "resolve" =>
    /\ cx.pc # "in" => cx.i <= MaxProbe + 1
    /\ cx.pc = "out" =>
         /\ cx.path = FirstFree(cx.name, cx.fs)
         /\ cx.path \notin cx.fs
         /\ (cx.name = <<"a", ".", "t", "x", "t">>
               /\ cx.fs = {<<"a", ".", "t", "x", "t">>,
                           <<"a", " ", "(", "1", ")", ".", "t", "x", "t">>}) =>
              cx.path = <<"a", " ", "(", "2", ")", ".", "t", "x", "t">>
         /\ cx.fs = {} => cx.path = cx.name

\* the fork bytes that follow the third fork header went into the sidecar
ResourceBytesCopied(t) ==
  /\ w[t].sidecar /\ w[t].resFail = ""
  /\ wpc[t] \in {"defer", "defer_compl", "defer_msg", "defer_send", "done"}

\* C21: during a download a fork whose type tag is not recognised is skipped:
\* its bytes are never written to the local file or to the sidecar, and the
\* bytes written to the local file are those of the fork tagged DATA.
C21_UnknownForkSkipped ==
  \A t \in DOMAIN task :
    kind[t] = "download" =>
      /\ w[t].tag2 \notin {"", "DATA"} => w[t].written = 0
      /\ w[t].tag3 \notin {"", "MACR"} => ~ResourceBytesCopied(t)

ProgressEvents(t) == SelectSeq(sent[t], LAMBDA m : m.type = "progress")

\* C22: the progress events sent for one Task are non-decreasing in byte
\* count, for every chunking of the reads and every timing of the ticker.
C22_ProgressNonDecreasing ==
  \A t \in TaskIds :
    \A i, j \in 1..Len(ProgressEvents(t)) :
      i <= j => ProgressEvents(t)[i].bytes <= ProgressEvents(t)[j].bytes

\* two throttled events with growing counts, then the final one
C22_Witness ==
  /\ Len(ProgressEvents(1)) = 3
  /\ ProgressEvents(1)[1].bytes < ProgressEvents(1)[2].bytes
  /\ ProgressEvents(1)[2].bytes = ProgressEvents(1)[3].bytes

\* C23: every copy that returns success has emitted one final progress event
\* after the throttled ones, carrying the number of bytes written, also with no
\* tick and with size 0; a chunk that finds no tick pending produces no event,
\* then or later: the events are one per pending tick, plus the final one.
C23_FinalProgressEvent ==
  \A t \in TaskIds :
    LET P == ProgressEvents(t) IN
    /\ wpc[t] \in {"copy_loop", "copy_chk", "copy_final"} => Len(P) = w[t].ticks
    /\ wpc[t] = "copy_send" => Len(P) = w[t].ticks - 1
    /\ wpc[t] = "copy_ret" =>
         /\ Len(P) = w[t].ticks + 1
         /\ P[Len(P)].bytes = w[t].written

\* a copy of size 0 returned success with no tick: one event, of 0 bytes
C23_Witness ==
  /\ wpc[1] = "copy_ret" /\ w[1].size = 0 /\ w[1].ticks = 0
  /\ Len(ProgressEvents(1)) = 1 /\ ProgressEvents(1)[1].bytes = 0

\* C24: for every Task at most one transfer worker is ever started; it is
\* started by the reply handler, which sets the Task Active and returns
\* without waiting for the worker; a second reply with the same transaction
\* id starts no second worker.
C24_OneWorkerPerTask ==
  [][\A t \in TaskIds :
       w'[t].starts # w[t].starts =>
         /\ w[t].starts = 0 /\ w'[t].starts = 1
         /\ uiPc \in {"dlreply", "ulreply"} /\ uiPc' = "idle"
         /\ task'[t].Status = TaskActive
         /\ wpc'[t] \in {"d_dial", "u_open"}]_vars

\* a second reply was handled after the worker of the first had ended
C24_Witness ==
  /\ ctl[1] = "handled2" /\ uiPc = "idle"
  /\ w[1].starts = 1 /\ wpc[1] = "done"

\* C25: two downloads of the same file name that are in flight at once end
\* with distinct local paths, so neither writes the other's file or sidecar.
C25_DistinctLocalPaths ==
  (cx.fn = "race" /\ \A k \in Racers : cx.rpc[k] \in {"writing", "done"}) =>
    cx.rpath[1] # cx.rpath[2]

Count(q, r) == Cardinality({i \in 1..Len(q) : q[i] = r})

\* C26: on every exit path of a worker, every transfer connection, local file
\* and sidecar file it opened has been closed when it terminates, each once.
C26_ResourcesClosedOnce ==
  \A t \in TaskIds :
    \A r \in {"conn", "file", "sidecar"} :
      /\ Count(w[t].closed, r) <= 1
      /\ wpc[t] \in {"defer_compl", "defer_msg", "defer_send", "done"} =>
           Count(w[t].closed, r) = (IF r \in w[t].opened THEN 1 ELSE 0)

\* a download ended after opening all three, and a failed dial ended with
\* nothing to close
C26_Witness ==
  /\ wpc[1] = "done" /\ kind[1] = "download"
  /\ w[1].opened = {"conn", "file", "sidecar"}
  /\ w[1].closed = <<"sidecar", "file", "conn">>

\* C27: once a Task's TotalBytes is set (download: after the reply was
\* handled; upload: from creation), TransferredBytes <= TotalBytes, for every
\* transfer size, data-fork size and local-file size.
C27_TransferredAtMostTotal ==
  \A t \in DOMAIN task :
    (kind[t] = "upload" \/ w[t].starts >= 1) =>
      task[t].TransferredBytes <= task[t].TotalBytes

\* C28: a started worker terminates and its Task then has Status Completed or
\* Failed and keeps it for ever; stated by its last part: once the worker has
\* ended with a Completed or Failed Task, the Status stays Completed or Failed.
C28_TerminalForEver ==
  [][\A t \in DOMAIN task :
       (wpc[t] = "done" /\ task[t].Status \in Terminal) =>
         task'[t].Status \in Terminal]_vars

\* the place of each position of the download worker in the order of steps
Phase(pc) ==
  CASE pc = "d_dial" -> 1
    [] pc = "d_hs" -> 2
    [] pc = "d_resolve" -> 3
    [] pc = "d_mkdir" -> 4
    [] pc = "d_create" -> 5
    [] pc = "d_ffo" -> 6
    [] pc = "d_infohdr" -> 7
    [] pc = "d_infodata" -> 8
    [] pc = "d_datahdr" -> 9
    [] pc \in {"copy_init", "copy_loop", "copy_send", "copy_chk", "copy_final",
               "copy_ret"} -> 10
    [] pc = "d_reshdr" -> 11
    [] pc = "d_rescreate" -> 12
    [] pc = "d_resad" -> 13
    [] pc = "d_rescopy" -> 14
    [] OTHER -> 0

\* C29: a download worker takes its steps strictly in the order dial,
\* handshake, resolve path, create directories, create file, container header,
\* info fork, data-fork header, data fork, resource fork; a failure stops it
\* with no later step, so a failed dial or handshake creates no directory and
\* no file, and the path is resolved once.
C29_DownloadStepOrder ==
  [][\A t \in TaskIds :
       (kind[t] = "download" /\ wpc'[t] # wpc[t] /\ wpc[t] # "idle") =>
         /\ \/ wpc'[t] \in ExitPath
            \/ /\ wpc[t] \notin ExitPath
               /\ Phase(wpc'[t]) \in {Phase(wpc[t]), Phase(wpc[t]) + 1}
         /\ w'[t].err # NoError => wpc'[t] \in ExitPath
         /\ w'[t].dir # w[t].dir => Phase(wpc[t]) = 4
         /\ ("file" \in w'[t].opened /\ "file" \notin w[t].opened) =>
              Phase(wpc[t]) = 5
         /\ w'[t].stage \in {"d_dial", "d_hs"} =>
              ~w'[t].dir /\ "file" \notin w'[t].opened]_vars

\* a download whose handshake write failed has ended: no directory, no file
C29_Witness ==
  /\ kind[1] = "download" /\ wpc[1] = "done"
  /\ w[1].stage = "d_hs" /\ ~w[1].dir /\ w[1].opened = {"conn"}

\* C30: every Task added to the TaskManager eventually reaches Completed or
\* Failed, also when the request cannot be sent or the server answers with an
\* error, and no entry stays in pendingDownloads / pendingUploads for ever:
\* when nothing more can happen, every Task has ended and the maps are empty.
C30_NoTaskLeftPending ==
  (~ENABLED Next) =>
    /\ \A t \in DOMAIN task : task[t].Status \in Terminal
    /\ DOMAIN pendingDownloads = {} /\ DOMAIN pendingUploads = {}

\* the transfer of t went through every step with no failure
Succeeded(t) == wpc[t] \in {"defer_send", "done"} /\ w[t].stage = ""

\* C31: the messages a worker sends carry every progress event before the one
\* status event: no progress event is sent after the status event, and on a
\* successful transfer the last progress event carries the number of data-fork
\* bytes copied and is the message before the status event.
C31_ProgressBeforeStatus ==
  \A t \in TaskIds :
    LET s == sent[t]
        P == ProgressEvents(t) IN
    /\ \A i \in 1..Len(s) : s[i].type = "status" => i = Len(s)
    /\ Succeeded(t) =>
         /\ Len(P) >= 1 /\ P[Len(P)].bytes = w[t].written
         /\ wpc[t] = "done" => (Len(s) >= 2 /\ s[Len(s) - 1].type = "progress")

\* a transfer of two bytes ended: a throttled event, the final one, the status
C31_Witness ==
  /\ wpc[1] = "done" /\ w[1].stage = "" /\ w[1].written = 2
  /\ Len(sent[1]) = 3 /\ sent[1][3].type = "status"
  /\ sent[1][2].type = "progress" /\ sent[1][2].bytes = 2

\* C32: a Task's TransferredBytes never decreases during a transfer, under any
\* interleaving of the worker's direct writes in the copy loop with the UI
\* loop's handling of the progress events.
C32_TransferredNeverDecreases ==
  [][\A t \in DOMAIN task :
       task'[t].TransferredBytes >= task[t].TransferredBytes]_vars

\* the UI loop ends the handler of a reply whose transaction id is in no map
UnmatchedReplyHandled ==
  /\ uiPc' = "idle"
  /\ \/ uiPc = "dlreply" /\ uiMsg.id \notin DOMAIN pendingDownloads
     \/ uiPc = "ulreply" /\ uiMsg.id \notin DOMAIN pendingUploads

\* C35: a download or upload reply whose transaction id matches no pending
\* transfer leaves every Task, the TaskManager and both pending maps unchanged
\* and starts no worker.
C35_UnmatchedReplyChangesNothing ==
  [][UnmatchedReplyHandled =>
       UNCHANGED <<task, tmTasks, tmOrder, pendingDownloads, pendingUploads,
                   wpc, w>>]_vars

\* an unmatched upload reply was handled while the upload's worker was copying
C35_Witness ==
  /\ ctl[1] = "handled2" /\ uiPc = "idle" /\ kind[1] = "upload"
  /\ wpc[1] = "copy_loop" /\ w[1].starts = 1

\* C36: the progress copy never takes more than size bytes from its source and
\* never writes more than size bytes, for every chunking of the reads; after a
\* copy of the full size exactly size bytes were taken, so that the next fork
\* header is read at its place in the stream.
C36_CopyWithinSize ==
  \A t \in TaskIds :
    /\ w[t].read <= w[t].size /\ w[t].written <= w[t].size
    /\ w[t].written <= w[t].read
    /\ (wpc[t] \in {"copy_ret", "d_reshdr"} /\ w[t].written = w[t].size) =>
         w[t].read = w[t].size

\* a download of two bytes read in two chunks stands before the third fork header
C36_Witness ==
  /\ kind[1] = "download" /\ wpc[1] = "d_reshdr"
  /\ w[1].size = 2 /\ w[1].read = 2 /\ w[1].written = 2 /\ w[1].ticks = 2

\* C33: the entry of a transfer is stored in pendingDownloads / pendingUploads
\* before its request is sent, so that a reply to a request that was sent always
\* finds its Task: no handled reply to a sent request has found no Task.
C33_ReplyFindsItsTask ==
  cx.fn = "maps" => \A k \in Initiators : cx.mfound[k] # "missing"

\* C34: pendingDownloads and pendingUploads are never accessed by two
\* goroutines at the same time: the map writes of the tea.Cmd functions overlap
\* neither with one another nor with the accesses of the reply handlers.
C34_NoConcurrentMapAccess ==
  cx.fn = "maps" =>
    \A kd \in TransferKinds :
      Cardinality(Writers(kd)) + (IF UIInside(kd) THEN 1 ELSE 0) <= 1

\* the sum of the bytes an upload says it sends: headers, info fork, data fork
\* and the resource fork that is sent
TrueTotal(infoLen, fileSize, sc) ==
  LET base == WideAdd(Wide(FFOHeaderLen + infoLen + ForkHeaderLen), fileSize) IN
  IF SendHasResourceFork(sc)
    THEN WideAdd(base, Wide(ForkHeaderLen + SidecarResForkSize(sc)))
    ELSE base

\* C37: for every size S of the local file and every sidecar size the 32-bit
\* fields of an upload are exact: the data-fork header's size field is S, the
\* resource-fork header's size field is the number of resource bytes sent, and
\* the handshake's total is their true sum with the headers; nothing wraps
\* modulo 2^32.
C37_UploadFieldsExact ==
  (cx.fn = "upload" /\ cx.pc = "hdrs") =>
    /\ Uint32BE(SubSeq(cx.dhdr, 13, 16)) = cx.size
    /\ Uint32BE(cx.req) = cx.size
    /\ cx.rhdr # << >> =>
         Uint32BE(SubSeq(cx.rhdr, 13, 16)) = Wide(SidecarResForkSize(cx.sc))
    /\ StatHasResourceFork(cx.sc) = SendHasResourceFork(cx.sc) =>
         HandshakeSize(cx.out) = TrueTotal(cx.infoLen, cx.size, cx.sc)

====
